---- MODULE Spec2Model ----
(***************************************************************************)
(* Model of the editor front-end: the signature-help CodeMirror extension  *)
(* (signatureHelp.ts), the query-parameter router and the settings         *)
(* validation predicate.                                                   *)
(***************************************************************************)
EXTENDS Integers, Sequences, FiniteSets, TLC

VARIABLES
    \* ---- signature help ----
    docLen,        \* length of view.state.doc
    cursor,        \* view.state.selection.main.from
    sigState,      \* value of signatureHelpTooltipField
    inflight,      \* sendRequest promises not yet settled
    issued,        \* number of sendRequest calls made so far
    lastIssued,    \* the view update (its number) that sent the latest request
    latestAnswer,  \* the effect last dispatched for a request of that update (<<>> if none)
    updates,       \* number of view updates with docChanged or selectionSet
    triggered,     \* triggerSignatureHelpRequest calls made by the last view update
    lastEffect,    \* the setSignatureHelpEffect dispatched last (<<>> if none yet)
    prevState,     \* value of the state field before lastEffect was applied
    updTr,         \* the transaction of the view update under study (SpecUpdate)
    updDone,       \* whether that transaction has been applied
    \* ---- router ----
    routerState,   \* RouterProvider's React state
    rendered,      \* the state captured by the closures of the last render
    history,       \* browser session history entries
    histIdx,       \* index of the current history entry
    lastNav,       \* what the last router operation was
    \* ---- settings ----
    supportedLanguages, \* ids of the supported languages
    settingsValue,      \* the unknown value under validation
    settingsResult,     \* outcome of isValidSettingsObject(settingsValue)
    \* ---- tooltip rendering ----
    fmtHelp,       \* the SignatureHelp handed to formatSignatureHelp
    fmtOutcome     \* what formatSignatureHelp(fmtHelp) returned or threw

sigVars == <<docLen, cursor, sigState, inflight, issued, lastIssued, latestAnswer, updates, triggered,
             lastEffect, prevState, updTr, updDone>>
routerVars == <<routerState, rendered, history, histIdx, lastNav>>
settingsVars == <<supportedLanguages, settingsValue, settingsResult>>
formatVars == <<fmtHelp, fmtOutcome>>
vars == <<sigVars, routerVars, settingsVars, formatVars>>

-----------------------------------------------------------------------------
(* Bounds *)

MaxDoc == 4          \* longest document
MaxRequests == 2     \* sendRequest calls per behaviour
MaxUpdates == 2      \* document/selection view updates per behaviour

-----------------------------------------------------------------------------
(* Signature help: values *)

\* null / undefined
Null == "null"

\* Non-null SignatureHelp payloads the language server may answer with.
SignatureHelps == {"helpA", "helpB"}

\* A nullable Tooltip is a sequence of length 0 (null) or 1.
NoTooltip == <<>>

\* Text a change may insert (ChangeSet `inserted`), as sequences of characters.
InsertedTexts == { <<>>, <<"x">>, <<"(", ")">> }

\* Transaction user events (the userEvent annotation) the editor produces
\* here: typed input and a backward delete.
UserEvents == {"input.type", "delete.backward"}

\* String.prototype.endsWith("()")
EndsWithParens(text) ==
    /\ Len(text) >= 2
    /\ text[Len(text) - 1] = "("
    /\ text[Len(text)] = ")"

\* Transaction.isUserEvent: the annotation equals the event or is a sub-event.
IsUserEvent(tr, event) ==
    \/ tr.userEvent = event
    \/ /\ event = "input"
       /\ tr.userEvent \in {"input.type", "input.complete", "input.paste"}

\* The selection ranges (cursors) of the editor; a transaction may carry one
\* change per range.
Ranges == <<"main", "secondary">>

\* One range's part in a ChangeSet: `deleted` characters replaced by
\* `inserted`; nothing deleted and nothing inserted is no change.
Changes == { c \in [deleted : 0..1, inserted : InsertedTexts] :
               c.deleted = 0 \/ c.inserted = <<>> }

IsChange(c) == c.deleted > 0 \/ c.inserted # <<>>

\* The changes of a ChangeSet in document order (what iterChanges visits).
RECURSIVE ChangeSeq(_, _)
ChangeSeq(perRange, i) ==
    IF i > Len(perRange) THEN <<>>
    ELSE IF IsChange(perRange[i]) THEN <<perRange[i]>> \o ChangeSeq(perRange, i + 1)
    ELSE ChangeSeq(perRange, i + 1)

\* The change sequences a transaction may carry (empty: no document change).
ChangeSets == { ChangeSeq(f, 1) : f \in [1..Len(Ranges) -> Changes] }

RECURSIVE SumDeleted(_)
SumDeleted(cs) ==
    IF cs = <<>> THEN 0 ELSE cs[1].deleted + SumDeleted(Tail(cs))

RECURSIVE SumInserted(_)
SumInserted(cs) ==
    IF cs = <<>> THEN 0 ELSE Len(cs[1].inserted) + SumInserted(Tail(cs))

\* Number of changes whose inserted text ends with "()": what the
\* iterChanges callback counts, one call per change.
RECURSIVE CountParens(_)
CountParens(cs) ==
    IF cs = <<>> THEN 0
    ELSE (IF EndsWithParens(cs[1].inserted) THEN 1 ELSE 0) + CountParens(Tail(cs))

\* The offsets a position may map to through the changes: the changes are
\* in document order and those before the position, some prefix of them,
\* shift it.
MapPos(pos, cs) ==
    { pos - SumDeleted(SubSeq(cs, 1, k)) + SumInserted(SubSeq(cs, 1, k)) :
        k \in 0..Len(cs) }

-----------------------------------------------------------------------------
(* Signature help: the state field *)

\* StateField create()
CreateState == [result |-> Null, tooltip |-> NoTooltip]

\* Variant: a null result never clears a showing tooltip.
reduceKeepOnNull(state, effect) ==
    IF effect.result # Null
    THEN [result |-> effect.result,
          tooltip |-> << [pos |-> effect.pos, above |-> TRUE] >>]
    ELSE state

\* Variant: a showing tooltip keeps its position when a new result arrives.
reduceKeepPosition(state, effect) ==
    IF state.tooltip # NoTooltip /\ effect.result = Null
    THEN [result |-> Null, tooltip |-> NoTooltip]
    ELSE IF effect.result # Null
    THEN [result |-> effect.result,
          tooltip |-> IF state.tooltip # NoTooltip THEN state.tooltip
                      ELSE << [pos |-> effect.pos, above |-> TRUE] >>]
    ELSE state

\* Variant: clearing removes the tooltip but leaves the old result behind.
reduceKeepResult(state, effect) ==
    IF state.tooltip # NoTooltip /\ effect.result = Null
    THEN [result |-> state.result, tooltip |-> NoTooltip]
    ELSE IF effect.result # Null
    THEN [result |-> effect.result,
          tooltip |-> << [pos |-> effect.pos, above |-> TRUE] >>]
    ELSE state

reduceSignatureHelpState(state, effect) ==
    IF state.tooltip # NoTooltip /\ effect.result = Null
    THEN [result |-> Null, tooltip |-> NoTooltip]
    ELSE IF effect.result # Null
    THEN [result |-> effect.result,
          tooltip |-> << [pos |-> effect.pos, above |-> TRUE] >>]
    ELSE state

\* Variant: every setSignatureHelpEffect of the transaction is reduced, in
\* effect order.
RECURSIVE FieldUpdateAll(_, _)
FieldUpdateAll(state, effects) ==
    IF effects = <<>> THEN state
    ELSE IF effects[1].is = "setSignatureHelpEffect"
    THEN FieldUpdateAll(reduceSignatureHelpState(state, effects[1].value), Tail(effects))
    ELSE FieldUpdateAll(state, Tail(effects))

\* Variant: a transaction without the effect hides the tooltip.
FieldUpdateHideOnEdit(state, effects) ==
    IF \A i \in 1..Len(effects) : effects[i].is # "setSignatureHelpEffect"
    THEN [result |-> Null, tooltip |-> NoTooltip]
    ELSE reduceSignatureHelpState(state,
            effects[CHOOSE i \in 1..Len(effects) :
                      /\ effects[i].is = "setSignatureHelpEffect"
                      /\ \A j \in 1..(i - 1) : effects[j].is # "setSignatureHelpEffect"].value)

\* signatureHelpTooltipField.update: the first setSignatureHelpEffect of the
\* transaction is reduced; without one the state is returned as is.
RECURSIVE FieldUpdate(_, _)
FieldUpdate(state, effects) ==
    IF effects = <<>> THEN state
    ELSE IF effects[1].is = "setSignatureHelpEffect"
    THEN reduceSignatureHelpState(state, effects[1].value)
    ELSE FieldUpdate(state, Tail(effects))

\* ViewUpdate.docChanged and ViewUpdate.selectionSet of an update made of
\* the one transaction tr.
DocChanged(tr) == tr.changes # <<>>
SelectionSet(tr) == tr.selection

\* Variant: any transaction that inserts "()" counts, user input or not.
TriggerCallsAnyEvent(docChanged, selectionSet, last, state) ==
    IF (docChanged \/ selectionSet) /\ state.tooltip # NoTooltip
    THEN 1
    ELSE IF docChanged
    THEN CountParens(last.changes)
    ELSE 0

\* SignatureHelpView.update: the number of triggerSignatureHelpRequest calls
\* it makes, given the ViewUpdate and the state field after the transaction.
TriggerCalls(docChanged, selectionSet, last, state) ==
    IF (docChanged \/ selectionSet) /\ state.tooltip # NoTooltip
    THEN 1
    ELSE IF docChanged
    THEN IF IsUserEvent(last, "input") THEN CountParens(last.changes) ELSE 0
    ELSE 0

\* triggerSignatureHelpRequest up to the await: n calls made in one view
\* update each capture the cursor offset and send one request.
SendRequests(n, pos, update) ==
    { [id |-> issued + k, pos |-> pos, update |-> update] : k \in 1..n }

\* Variant: the offset is read from the selection after the await.
ResponseEffectAtCursor(req, result) == [pos |-> cursor, result |-> result]

\* The effect triggerSignatureHelpRequest dispatches for a settled request:
\* the offset captured before the await, with the result (null on failure).
ResponseEffect(req, result) == [pos |-> req.pos, result |-> result]

\* A transaction with no change, no selection and no effect.
NoTransaction ==
    [userEvent |-> "none", changes |-> <<>>, selection |-> FALSE, effects |-> <<>>]

-----------------------------------------------------------------------------
(* Signature help: actions *)

SigInit ==
    /\ docLen = 0
    /\ cursor = 0
    /\ sigState = CreateState
    /\ inflight = {}
    /\ issued = 0
    /\ lastIssued = 0
    /\ latestAnswer = <<>>
    /\ updates = 0
    /\ triggered = 0
    /\ lastEffect = <<>>
    /\ prevState = CreateState
    /\ updTr = NoTransaction
    /\ updDone = FALSE

\* view.dispatch(tr) for a user transaction: a document change and/or a
\* selection change. The state field sees no effect; the view plugin's
\* update is then called with the single transaction. A selection change
\* alone puts the cursor anywhere; with a document change the cursor is the
\* old one mapped through the changes (it follows the edit).
Edit ==
    \E userEvent \in UserEvents, changes \in ChangeSets,
       selectionSet \in BOOLEAN :
      LET last == [userEvent |-> userEvent, changes |-> changes,
                   selection |-> selectionSet, effects |-> <<>>]
          docChanged == DocChanged(last)
          newLen == docLen - SumDeleted(changes) + SumInserted(changes)
          newState == FieldUpdate(sigState, last.effects)
          n == TriggerCalls(docChanged, SelectionSet(last), last, newState)
      IN  /\ docChanged \/ selectionSet
          /\ SumDeleted(changes) <= docLen
          /\ newLen <= MaxDoc
          /\ updates < MaxUpdates
          /\ issued + n <= MaxRequests
          /\ \E newCursor \in 0..newLen :
               /\ (~selectionSet \/ docChanged) => newCursor \in MapPos(cursor, changes)
               /\ cursor' = newCursor
               /\ inflight' = inflight \cup SendRequests(n, newCursor, updates + 1)
          /\ docLen' = newLen
          /\ sigState' = newState
          /\ issued' = issued + n
          /\ lastIssued' = IF n > 0 THEN updates + 1 ELSE lastIssued
          /\ latestAnswer' = IF n > 0 THEN <<>> ELSE latestAnswer
          /\ updates' = updates + 1
          /\ triggered' = n
          /\ UNCHANGED <<lastEffect, prevState, updTr, updDone>>
          /\ UNCHANGED <<routerVars, settingsVars, formatVars>>

\* The rest of triggerSignatureHelpRequest: the awaited request settles and
\* the effect is dispatched in a transaction with no change and no selection.
Settle(req, result, rejected) ==
    LET effect == ResponseEffect(req, result)
        tr == [userEvent |-> "none", changes |-> <<>>, selection |-> FALSE,
               effects |-> << [is |-> "setSignatureHelpEffect", value |-> effect] >>]
        newState == FieldUpdate(sigState, tr.effects)
        n == TriggerCalls(DocChanged(tr), SelectionSet(tr), tr, newState)
    IN  /\ issued + n <= MaxRequests
        /\ sigState' = newState
        /\ inflight' = (inflight \ {req}) \cup SendRequests(n, cursor, updates)
        /\ issued' = issued + n
        /\ lastIssued' = IF n > 0 THEN updates ELSE lastIssued
        /\ latestAnswer' = IF n > 0 THEN <<>>
                           ELSE IF req.update = lastIssued THEN <<effect>>
                           ELSE latestAnswer
        /\ triggered' = n
        /\ lastEffect' = << [id |-> req.id, pos |-> effect.pos,
                             result |-> effect.result, rejected |-> rejected] >>
        /\ prevState' = sigState
        /\ UNCHANGED <<updTr, updDone>>
        /\ UNCHANGED <<docLen, cursor, updates>>
        /\ UNCHANGED <<routerVars, settingsVars, formatVars>>

\* sendRequest resolves, with a SignatureHelp or with null.
Resolve ==
    \E req \in inflight, result \in SignatureHelps \cup {Null} :
        Settle(req, result, FALSE)

\* sendRequest rejects: the catch block dispatches a null result.
Reject ==
    \E req \in inflight : Settle(req, Null, TRUE)

SigNext == Edit \/ Resolve \/ Reject

\* The request with this id settles, one way or the other.
SettleRequest(id) ==
    \E req \in inflight :
        /\ req.id = id
        /\ \/ \E result \in SignatureHelps \cup {Null} : Settle(req, result, FALSE)
           \/ Settle(req, Null, TRUE)

-----------------------------------------------------------------------------
(* Router: strings are sequences of characters *)

MaxNavs == 2         \* navigate calls per behaviour

\* undefined / null for optional values: a sequence of length 0; a present
\* value v is <<v>>.
Undefined == <<>>
Some(v) == <<v>>

\* Parameter values used by the callers in the model.
Strings == { <<>>, <<"a", "&">> }

\* RouterParam ids, in the key order of the object `parse` builds.
ParamIds == <<"tab", "reference", "explore">>

KeyChars(k) ==
    CASE k = "tab" -> <<"t", "a", "b">>
      [] k = "reference" -> <<"r", "e", "f", "e", "r", "e", "n", "c", "e">>
      [] k = "explore" -> <<"e", "x", "p", "l", "o", "r", "e">>

\* Values of one parameter: tab is a string, the others are Anchors.
ParamValues(k) ==
    CASE k = "tab" -> {Undefined} \cup { Some(s) : s \in Strings }
      [] k = "reference" -> {Undefined} \cup { Some([id |-> s]) : s \in Strings }
      [] k = "explore" -> {Undefined} \cup { Some([id |-> s]) : s \in Strings \ { <<>> } }

RouterStates ==
    { [tab |-> t, reference |-> r, explore |-> e] :
        t \in ParamValues("tab"), r \in ParamValues("reference"),
        e \in ParamValues("explore") }

\* encodeURIComponent, one character: unreserved characters are kept, the
\* others become %XX.
EncodeChar(c) ==
    CASE c = "&" -> <<"%", "2", "6">>
      [] c = "=" -> <<"%", "3", "D">>
      [] c = "%" -> <<"%", "2", "5">>
      [] c = "+" -> <<"%", "2", "B">>
      [] c = "?" -> <<"%", "3", "F">>
      [] OTHER -> <<c>>

RECURSIVE encodeURIComponent(_)
encodeURIComponent(str) ==
    IF str = <<>> THEN <<>>
    ELSE EncodeChar(str[1]) \o encodeURIComponent(Tail(str))

\* Percent-decoding as URLSearchParams does it ("+" is a space).
RECURSIVE DecodeComponent(_)
DecodeComponent(str) ==
    IF str = <<>> THEN <<>>
    ELSE IF str[1] = "+" THEN <<" ">> \o DecodeComponent(Tail(str))
    ELSE IF str[1] = "%" /\ Len(str) >= 3
    THEN LET hex == <<str[2], str[3]>>
             rest == DecodeComponent(SubSeq(str, 4, Len(str)))
         IN  CASE hex = <<"2", "6">> -> <<"&">> \o rest
               [] hex = <<"3", "D">> -> <<"=">> \o rest
               [] hex = <<"2", "5">> -> <<"%">> \o rest
               [] hex = <<"2", "B">> -> <<"+">> \o rest
               [] hex = <<"3", "F">> -> <<"?">> \o rest
               [] OTHER -> <<str[1]>> \o DecodeComponent(Tail(str))
    ELSE <<str[1]>> \o DecodeComponent(Tail(str))

\* Index of the first occurrence of c in str, 0 if none.
RECURSIVE IndexOf(_, _, _)
IndexOf(str, c, from) ==
    IF from > Len(str) THEN 0
    ELSE IF str[from] = c THEN from
    ELSE IndexOf(str, c, from + 1)

\* String.prototype.split on a one-character separator.
RECURSIVE Split(_, _)
Split(str, sep) ==
    LET i == IndexOf(str, sep, 1)
    IN  IF i = 0 THEN << str >>
        ELSE << SubSeq(str, 1, i - 1) >> \o Split(SubSeq(str, i + 1, Len(str)), sep)

\* new URLSearchParams(search): the decoded (name, value) pairs in order.
RECURSIVE ParsePairs(_)
ParsePairs(pieces) ==
    IF pieces = <<>> THEN <<>>
    ELSE LET piece == pieces[1]
             i == IndexOf(piece, "=", 1)
             name == IF i = 0 THEN piece ELSE SubSeq(piece, 1, i - 1)
             value == IF i = 0 THEN <<>> ELSE SubSeq(piece, i + 1, Len(piece))
         IN  IF piece = <<>> THEN ParsePairs(Tail(pieces))
             ELSE << [name |-> DecodeComponent(name), value |-> DecodeComponent(value)] >>
                  \o ParsePairs(Tail(pieces))

URLSearchParams(search) ==
    LET query == IF search # <<>> /\ search[1] = "?" THEN Tail(search) ELSE search
    IN  ParsePairs(Split(query, "&"))

\* URLSearchParams.get: the first value of that name, or null.
RECURSIVE ParamsGet(_, _)
ParamsGet(params, name) ==
    IF params = <<>> THEN Undefined
    ELSE IF params[1].name = name THEN Some(params[1].value)
    ELSE ParamsGet(Tail(params), name)

anchorForParam(param) ==
    IF param # Undefined /\ param[1] # <<>> THEN Some([id |-> param[1]]) ELSE Undefined

parse(search) ==
    LET params == URLSearchParams(search)
    IN  [tab |-> ParamsGet(params, KeyChars("tab")),
         reference |-> anchorForParam(ParamsGet(params, KeyChars("reference"))),
         explore |-> anchorForParam(ParamsGet(params, KeyChars("explore")))]

serializeValue(k, value) ==
    IF k = "tab" THEN value ELSE value.id

\* The `!!v` filter of navigate: undefined and the empty string are
\* dropped, an Anchor object is always kept.
Truthy(k, v) ==
    /\ v # Undefined
    /\ (k = "tab" => v[1] # <<>>)

\* The "k=v" entries of navigate's query, joined with "&".
RECURSIVE JoinEntries(_, _)
JoinEntries(state, keys) ==
    IF keys = <<>> THEN <<>>
    ELSE LET k == keys[1]
             rest == JoinEntries(state, Tail(keys))
             entry == encodeURIComponent(KeyChars(k)) \o <<"=">>
                      \o encodeURIComponent(serializeValue(k, state[k][1]))
         IN  IF ~Truthy(k, state[k]) THEN rest
             ELSE IF rest = <<>> THEN entry
             ELSE entry \o <<"&">> \o rest

\* The search part of the url navigate pushes.
NavigateSearch(newState) ==
    LET query == JoinEntries(newState, ParamIds)
    IN  IF query # <<>> THEN <<"?">> \o query ELSE <<>>

\* The search string of the current history entry (window.location.search).
LocationSearch == history[histIdx].search

\* The state with no parameter set.
NoState == [tab |-> Undefined, reference |-> Undefined, explore |-> Undefined]

\* The page may be opened on any of these URLs.
InitialSearches == { <<>>, <<"?", "t", "a", "b", "=", "a">> }

RouterInit ==
    /\ \E search \in InitialSearches :
         /\ history = << [state |-> Undefined, search |-> search] >>
         /\ routerState = parse(search)
         /\ rendered = parse(search)
    /\ histIdx = 1
    /\ lastNav = [op |-> "init", param |-> "", before |-> NoState, entries |-> 0, navs |-> 0]

\* Variant: navigating to the state the router already has does nothing.
navigateSkipSame(newState, op, param) ==
    /\ lastNav.navs < MaxNavs
    /\ history' = IF newState = routerState THEN history
                  ELSE Append(SubSeq(history, 1, histIdx),
                              [state |-> Some(newState), search |-> NavigateSearch(newState)])
    /\ histIdx' = IF newState = routerState THEN histIdx ELSE histIdx + 1
    /\ routerState' = newState
    /\ lastNav' = [op |-> op, param |-> param,
                   before |-> IF op = "param" THEN routerState ELSE NoState,
                   entries |-> 0, navs |-> lastNav.navs + 1]
    /\ UNCHANGED rendered
    /\ UNCHANGED <<sigVars, settingsVars, formatVars>>

\* navigate(newState): push a history entry, then setState(newState).
navigate(newState, op, param) ==
    /\ lastNav.navs < MaxNavs
    /\ history' = Append(SubSeq(history, 1, histIdx),
                         [state |-> Some(newState), search |-> NavigateSearch(newState)])
    /\ histIdx' = histIdx + 1
    /\ routerState' = newState
    /\ lastNav' = [op |-> op, param |-> param,
                   before |-> IF op = "param" THEN routerState ELSE NoState,
                   entries |-> 0, navs |-> lastNav.navs + 1]
    /\ UNCHANGED rendered
    /\ UNCHANGED <<sigVars, settingsVars, formatVars>>

\* A component calls the setter of useRouterState with a whole state.
Navigate ==
    \E newState \in RouterStates : navigate(newState, "navigate", "")

\* A component calls the setter returned by useRouterParam(param): the
\* callback spreads the state of the render that created it.
NavigateParam ==
    \E k \in {"tab", "reference", "explore"} :
        \E value \in ParamValues(k) :
            navigate([rendered EXCEPT ![k] = value], "param", k)

\* React re-renders with the committed state; the callbacks are re-created.
Render ==
    /\ rendered # routerState
    /\ rendered' = routerState
    /\ UNCHANGED <<routerState, history, histIdx, lastNav>>
    /\ UNCHANGED <<sigVars, settingsVars, formatVars>>

\* Browser back/forward: the current entry changes, then the popstate
\* listener parses the location and sets the state.
Popstate ==
    \E target \in 1..Len(history) :
        /\ target # histIdx
        /\ histIdx' = target
        /\ routerState' = parse(history[target].search)
        /\ lastNav' = [lastNav EXCEPT !.op = "popstate", !.param = "",
                                      !.before = NoState, !.entries = Len(history)]
        /\ UNCHANGED <<history, rendered>>
        /\ UNCHANGED <<sigVars, settingsVars, formatVars>>

RouterNext == Navigate \/ NavigateParam \/ Render \/ Popstate

-----------------------------------------------------------------------------
(* Settings: JavaScript values are [t |-> typeof-like tag, v |-> text] *)

JsUndefined == [t |-> "undefined", v |-> ""]
JsString(s) == [t |-> "string", v |-> s]
JsNumber(n) == [t |-> "number", v |-> n]

\* Property values an object under validation may carry.
LanguageIdValues == {JsUndefined, JsString("en"), JsString("lol"), JsString("fr"),
                     JsString(""), JsNumber("14")}
FontSizeValues == {JsUndefined, JsNumber("14"), JsString("big")}
HighlightValues == {JsUndefined, JsString("none"), JsString("full"), JsString("simple"),
                    JsString("bogus"), JsNumber("0")}

NoProps == [languageId |-> JsUndefined, fontSize |-> JsUndefined,
            codeStructureHighlight |-> JsUndefined]

\* The unknown values: primitives, null, an array, and plain objects.
UnknownValues ==
    { [kind |-> k, props |-> NoProps] :
        k \in {"undefined", "null", "number", "string", "boolean", "array"} }
    \cup
    { [kind |-> "object",
       props |-> [languageId |-> l, fontSize |-> f, codeStructureHighlight |-> c]] :
        l \in LanguageIdValues, f \in FontSizeValues, c \in HighlightValues }

\* typeof value
TypeOf(value) ==
    IF value.kind \in {"null", "array", "object"} THEN "object" ELSE value.kind

\* JavaScript truthiness of a property value.
JsTruthy(x) ==
    ~ \/ x.t \in {"undefined", "null"}
      \/ x.t = "string" /\ x.v = ""
      \/ x.t = "number" /\ x.v \in {"0", "NaN"}

codeStructureOptions == <<"none", "full", "simple">>

\* Array.prototype.indexOf with strict equality, 0-based; -1 if absent.
ArrayIndexOf(array, x) ==
    IF x.t = "string" /\ \E i \in 1..Len(array) : array[i] = x.v
    THEN (CHOOSE i \in 1..Len(array) :
            array[i] = x.v /\ \A j \in 1..(i - 1) : array[j] # x.v) - 1
    ELSE -1

\* supportedLanguages.find((x) => x.id === languageId) found something
FindLanguage(languages, languageId) ==
    languageId.t = "string" /\ \E i \in 1..Len(languages) : languages[i] = languageId.v

\* Outcome of the call: "true", "false", or "throws" (property access on null).
isValidSettingsObject(value, languages) ==
    IF TypeOf(value) # "object" THEN "false"
    ELSE IF value.kind = "null" THEN "throws"
    ELSE IF JsTruthy(value.props.languageId)
            /\ ~FindLanguage(languages, value.props.languageId)
    THEN "false"
    ELSE IF ArrayIndexOf(codeStructureOptions, value.props.codeStructureHighlight) = -1
    THEN "false"
    ELSE "true"

\* supportedLanguages: "lol" is pushed outside production builds.
SettingsInit ==
    /\ supportedLanguages \in { <<"en">>, <<"en", "lol">> }
    /\ settingsValue \in UnknownValues
    /\ settingsResult = "pending"

Validate ==
    /\ settingsResult = "pending"
    /\ settingsResult' = isValidSettingsObject(settingsValue, supportedLanguages)
    /\ UNCHANGED <<supportedLanguages, settingsValue>>
    /\ UNCHANGED <<sigVars, routerVars, formatVars>>

SettingsNext == Validate

-----------------------------------------------------------------------------
(* One transaction through the state field and the view plugin *)

MaxEffects == 2      \* effects in one transaction

\* Offsets used by the effects and tooltips of the transactions below.
EffectPositions == 0..1

\* The effects a transaction may carry: setSignatureHelpEffect values, and
\* an effect of another type.
Effects ==
    { [is |-> "setSignatureHelpEffect", value |-> [pos |-> p, result |-> r]] :
        p \in EffectPositions, r \in SignatureHelps \cup {Null} }
    \cup { [is |-> "other", value |-> [pos |-> 0, result |-> Null]] }

RECURSIVE SeqsUpTo(_, _)
SeqsUpTo(S, n) ==
    IF n = 0 THEN { <<>> }
    ELSE LET shorter == SeqsUpTo(S, n - 1)
         IN  shorter \cup { Append(t, x) : t \in { u \in shorter : Len(u) = n - 1 }, x \in S }

EffectSeqs == SeqsUpTo(Effects, MaxEffects)

\* Values of the state field: the created one and those a response leaves.
FieldStates ==
    { CreateState } \cup
    { [result |-> r, tooltip |-> << [pos |-> p, above |-> TRUE] >>] :
        r \in SignatureHelps, p \in EffectPositions }

\* Any transaction meets any value of the state field.
UpdateInit ==
    /\ docLen = 0
    /\ cursor = 0
    /\ sigState \in FieldStates
    /\ inflight = {}
    /\ issued = 0
    /\ lastIssued = 0
    /\ latestAnswer = <<>>
    /\ updates = 0
    /\ triggered = 0
    /\ lastEffect = <<>>
    /\ prevState = sigState
    /\ updTr \in [userEvent : UserEvents, changes : ChangeSets,
                   selection : BOOLEAN, effects : EffectSeqs]
    /\ updDone = FALSE

\* The transaction is applied: signatureHelpTooltipField.update computes the
\* new field value, then SignatureHelpView.update sees the view update.
ApplyTransaction ==
    LET newState == FieldUpdate(sigState, updTr.effects)
    IN  /\ ~updDone
        /\ updDone' = TRUE
        /\ prevState' = sigState
        /\ sigState' = newState
        /\ triggered' = TriggerCalls(DocChanged(updTr), SelectionSet(updTr), updTr, newState)
        /\ UNCHANGED <<docLen, cursor, inflight, issued, lastIssued, latestAnswer,
                       updates, lastEffect, updTr>>
        /\ UNCHANGED <<routerVars, settingsVars, formatVars>>

UpdateNext == ApplyTransaction

-----------------------------------------------------------------------------
(* Rendering a stored result: formatSignatureHelp *)

MaxSignatures == 2   \* entries of SignatureHelp.signatures

\* SignatureInformation.label values.
SignatureLabels == { <<"f", "(", "a", ")">>, <<"g", "(", "b", ")">> }

\* ParameterInformation.label: a string or an [inclusive start, exclusive
\* end] offset pair into the signature label.
PairLabel(from, to) == [kind |-> "pair", from |-> from, to |-> to]
StringLabel == [kind |-> "string", from |-> 0, to |-> 0]
ParameterLabels == { PairLabel(2, 3), PairLabel(0, 1), StringLabel }

\* SignatureInformation.parameters: absent, empty or one parameter.
ParameterLists ==
    {Undefined} \cup {Some(<<>>)} \cup { Some(<<[label |-> l]>>) : l \in ParameterLabels }

\* SignatureInformation.activeParameter: absent or an index, in range or not.
ActiveParameters == {Undefined} \cup { Some(i) : i \in 0..1 }

SignatureInformations ==
    [label : SignatureLabels, parameters : ParameterLists, activeParameter : ActiveParameters]

\* SignatureHelp.activeSignature: null, absent or an index, in range or not.
ActiveSignatures ==
    { [kind |-> "null", n |-> 0], [kind |-> "undefined", n |-> 0] }
        \cup { [kind |-> "number", n |-> i] : i \in 0..MaxSignatures }

SignatureHelpValues ==
    [activeSignature : ActiveSignatures,
     signatures : SeqsUpTo(SignatureInformations, MaxSignatures)]

NoSignatures == [activeSignature |-> [kind |-> "null", n |-> 0], signatures |-> <<>>]

Pending == [kind |-> "pending", error |-> "", before |-> <<>>, parameter |-> <<>>, after |-> <<>>]
Throws(error) == [kind |-> "throws", error |-> error, before |-> <<>>, parameter |-> <<>>, after |-> <<>>]

\* String.prototype.substring(start, end): both indexes are clamped to the
\* string and swapped when start is greater than end.
Clamp(i, len) == IF i < 0 THEN 0 ELSE IF i > len THEN len ELSE i
Substring(str, start, end) ==
    LET a == Clamp(start, Len(str))
        b == Clamp(end, Len(str))
    IN  IF a <= b THEN SubSeq(str, a + 1, b) ELSE SubSeq(str, b + 1, a)

\* array[index]: undefined when the index is outside the array.
ArrayAt(array, index) ==
    IF index >= 0 /\ index < Len(array) THEN Some(array[index + 1]) ELSE Undefined

\* formatHighlightedParameter: the three text nodes cut out of the label
\* (before, as it is when the indexes are used).
formatHighlightedParameter(label, from, to) ==
    [kind |-> "node", error |-> "",
     before |-> Substring(label, 0, from),
     parameter |-> Substring(label, from, to),
     after |-> Substring(label, to, Len(label))]

\* Variant: the first signature is rendered whatever activeSignature is.
formatFirstSignature(help) ==
    LET activeSignature == ArrayAt(help.signatures, 0)
    IN  IF activeSignature = Undefined THEN Throws("TypeError")
        ELSE LET label == activeSignature[1].label
                 parameters == activeSignature[1].parameters
                 activeParameterIndex == activeSignature[1].activeParameter
                 activeParameter ==
                     IF activeParameterIndex # Undefined /\ parameters # Undefined
                     THEN ArrayAt(parameters[1], activeParameterIndex[1])
                     ELSE Undefined
             IN  IF activeParameter # Undefined /\ activeParameter[1].label.kind = "pair"
                 THEN formatHighlightedParameter(label, activeParameter[1].label.from,
                                                 activeParameter[1].label.to)
                 ELSE IF activeParameter # Undefined /\ activeParameter[1].label.kind = "string"
                 THEN Throws("Not supported")
                 ELSE formatHighlightedParameter(label, Len(label), Len(label))

\* formatSignatureHelp: the node it returns or the error it throws.
\* Destructuring an undefined signature throws a TypeError.
formatSignatureHelp(help) ==
    LET activeSignatureIndex == help.activeSignature
        activeSignature ==
            IF activeSignatureIndex.kind = "null" THEN ArrayAt(help.signatures, 0)
            ELSE IF activeSignatureIndex.kind = "number"
            THEN ArrayAt(help.signatures, activeSignatureIndex.n)
            ELSE Undefined
    IN  IF activeSignature = Undefined THEN Throws("TypeError")
        ELSE LET label == activeSignature[1].label
                 parameters == activeSignature[1].parameters
                 activeParameterIndex == activeSignature[1].activeParameter
                 activeParameter ==
                     IF activeParameterIndex # Undefined /\ parameters # Undefined
                     THEN ArrayAt(parameters[1], activeParameterIndex[1])
                     ELSE Undefined
             IN  IF activeParameter # Undefined /\ activeParameter[1].label.kind = "pair"
                 THEN formatHighlightedParameter(label, activeParameter[1].label.from,
                                                 activeParameter[1].label.to)
                 ELSE IF activeParameter # Undefined /\ activeParameter[1].label.kind = "string"
                 THEN Throws("Not supported")
                 ELSE formatHighlightedParameter(label, Len(label), Len(label))

FormatInit ==
    /\ fmtHelp \in SignatureHelpValues
    /\ fmtOutcome = Pending

\* No tooltip is being created.
FormatIdle ==
    /\ fmtHelp = NoSignatures
    /\ fmtOutcome = Pending

\* Tooltip.create: the stored result is formatted when the tooltip is shown.
CreateTooltip ==
    /\ fmtOutcome = Pending
    /\ fmtOutcome' = formatSignatureHelp(fmtHelp)
    /\ UNCHANGED fmtHelp
    /\ UNCHANGED <<sigVars, routerVars, settingsVars>>

FormatNext == CreateTooltip

-----------------------------------------------------------------------------
(* Specifications *)

\* The signature-help extension.
SigSpecInit ==
    /\ SigInit
    /\ RouterInit /\ history[1].search = <<>>
    /\ SettingsInit /\ supportedLanguages = <<"en">> /\ settingsValue.kind = "undefined"
    /\ FormatIdle

Spec == SigSpecInit /\ [][SigNext]_vars

\* The signature-help extension with a connection on which every
\* sendRequest eventually resolves or rejects.
SpecLive ==
    /\ SigSpecInit
    /\ [][SigNext]_vars
    /\ \A id \in 1..MaxRequests : WF_vars(SettleRequest(id))

\* One transaction applied to the state field and the view plugin.
UpdateSpecInit ==
    /\ UpdateInit
    /\ RouterInit /\ history[1].search = <<>>
    /\ SettingsInit /\ supportedLanguages = <<"en">> /\ settingsValue.kind = "undefined"
    /\ FormatIdle

SpecUpdate == UpdateSpecInit /\ [][UpdateNext]_vars

\* The router.
RouterSpecInit ==
    /\ RouterInit
    /\ SigInit
    /\ SettingsInit /\ supportedLanguages = <<"en">> /\ settingsValue.kind = "undefined"
    /\ FormatIdle

SpecRouter == RouterSpecInit /\ [][RouterNext]_vars

\* The settings predicate applied to an unknown value.
SettingsSpecInit ==
    /\ SettingsInit
    /\ SigInit
    /\ RouterInit /\ history[1].search = <<>>
    /\ FormatIdle

SpecSettings == SettingsSpecInit /\ [][SettingsNext]_vars

\* formatSignatureHelp applied to a result the reducer stored.
FormatSpecInit ==
    /\ FormatInit
    /\ SigInit
    /\ RouterInit /\ history[1].search = <<>>
    /\ SettingsInit /\ supportedLanguages = <<"en">> /\ settingsValue.kind = "undefined"

SpecFormat == FormatSpecInit /\ [][FormatNext]_vars

-----------------------------------------------------------------------------
(* Properties of the signature-help extension (checked under Spec) *)

\* The state a response effect {pos, result} stands for on its own.
OverwriteBy(effect) ==
    [result |-> effect.result,
     tooltip |-> IF effect.result = Null THEN NoTooltip
                 ELSE << [pos |-> effect.pos, above |-> TRUE] >>]

Cleared == [result |-> Null, tooltip |-> NoTooltip]

\* C1: when the last settled request was rejected, the state field has
\* tooltip = null and result = null, whether or not a tooltip was showing
\* before the failure was applied.
C1_FailureClearsTooltip ==
    (lastEffect # <<>> /\ lastEffect[1].rejected) => sigState = Cleared

\* C1 witness: a rejection was applied while a tooltip was showing.
C1_Witness ==
    /\ lastEffect # <<>>
    /\ lastEffect[1].rejected
    /\ prevState.tooltip # NoTooltip
    /\ sigState = Cleared

\* C2: reducing any reachable prior state with a response effect gives a
\* state that depends on the effect only: its result, and no tooltip for a
\* null result or a tooltip above the effect's position otherwise.
C2_ResponseOverwrites ==
    lastEffect # <<>> =>
        reduceSignatureHelpState(prevState,
            [pos |-> lastEffect[1].pos, result |-> lastEffect[1].result])
        = OverwriteBy(lastEffect[1])

\* C2 witness: a non-null response replaced a showing tooltip that had
\* another result at another position.
C2_Witness ==
    /\ lastEffect # <<>>
    /\ lastEffect[1].result # Null
    /\ prevState.tooltip # NoTooltip
    /\ prevState.result # lastEffect[1].result
    /\ prevState.tooltip[1].pos # lastEffect[1].pos
    /\ sigState = OverwriteBy(lastEffect[1])

\* C3: at every moment the state field is exactly the state of the most
\* recently settled response, however many requests are in flight and in
\* whatever order they settle; nothing of an earlier response remains.
C3_LastResponseWins ==
    IF lastEffect = <<>> THEN sigState = CreateState
    ELSE sigState = OverwriteBy(lastEffect[1])

\* C3 witness: two requests settled in the reverse of their issue order,
\* the later settlement replacing a showing tooltip.
C3_Witness ==
    /\ issued >= 2
    /\ inflight = {}
    /\ lastEffect # <<>>
    /\ lastEffect[1].id = 1
    /\ prevState.tooltip # NoTooltip
    /\ prevState # sigState

\* C4 (as claimed): once no request is outstanding, the result and the
\* tooltip position in the state field are those answered to the request of
\* the most recent requesting view update.
C4_NeverStale ==
    (inflight = {} /\ latestAnswer # <<>>) =>
        sigState = OverwriteBy(latestAnswer[1])

\* C5 (as claimed): one view update makes at most one call of
\* triggerSignatureHelpRequest.
C5_OneRequestPerUpdate == triggered <= 1

\* C6 (as claimed): applying a response sends nothing, and the requests
\* sent never outnumber the document/selection view updates.
C6_NoMoreRequestsThanUpdates == issued <= updates
-----------------------------------------------------------------------------
(* Properties of the settings predicate (checked under SpecSettings) *)

\* The Settings shape: an object with a supported languageId, a numeric
\* fontSize and one of the code structure options.
MatchesSettings(value, languages) ==
    /\ value.kind = "object"
    /\ FindLanguage(languages, value.props.languageId)
    /\ value.props.fontSize.t = "number"
    /\ value.props.codeStructureHighlight.t = "string"
    /\ value.props.codeStructureHighlight.v \in {"none", "full", "simple"}

\* C7 (as claimed): the predicate answers true exactly for the values of
\* the Settings shape and false for every other value.
C7_ValidatesShape ==
    settingsResult # "pending" =>
        settingsResult = (IF MatchesSettings(settingsValue, supportedLanguages)
                          THEN "true" ELSE "false")

-----------------------------------------------------------------------------
(* Properties of the router (checked under SpecRouter) *)

\* C8 (as claimed): after a useRouterParam setter call, every other
\* parameter has the value it had in the router state just before the call.
C8_OtherParamsPreserved ==
    lastNav.op = "param" =>
        \A i \in 1..Len(ParamIds) :
            ParamIds[i] # lastNav.param =>
                routerState[ParamIds[i]] = lastNav.before[ParamIds[i]]

\* The URL query holds exactly the parameters set in the state.
QueryMatchesState(search, state) ==
    /\ \A i \in 1..Len(ParamIds) :
         (state[ParamIds[i]] # Undefined)
           <=> (ParamsGet(URLSearchParams(search), KeyChars(ParamIds[i])) # Undefined)
    /\ (\A i \in 1..Len(ParamIds) : state[ParamIds[i]] = Undefined) => search = <<>>

\* C9 (as claimed): after navigate calls and popstate events the router
\* state is the parse of the current URL query, and the query holds
\* exactly the parameters set in the state.
C9_StateMatchesUrl ==
    lastNav.op # "init" =>
        /\ routerState = parse(LocationSearch)
        /\ QueryMatchesState(LocationSearch, routerState)

\* C10 (as claimed): a popstate landing on an entry pushed by navigate(s1)
\* sets the router state to s1, and pushes no history entry.
C10_BackRestoresState ==
    (lastNav.op = "popstate" /\ history[histIdx].state # Undefined) =>
        /\ routerState = history[histIdx].state[1]
        /\ Len(history) = lastNav.entries

-----------------------------------------------------------------------------
(* Properties of one view update (checked under SpecUpdate) *)

\* C11: with a tooltip showing, a view update with a document or selection
\* change sends a request; with none showing, a request is sent only for a
\* document change whose last transaction is user input and has a change
\* inserting text that ends with "()".
C11_TriggerRule ==
    updDone =>
        IF sigState.tooltip # NoTooltip
        THEN (updTr.changes # <<>> \/ updTr.selection) => triggered >= 1
        ELSE (triggered >= 1) <=>
                /\ updTr.changes # <<>>
                /\ updTr.userEvent \in {"input", "input.type"}
                /\ \E i \in 1..Len(updTr.changes) :
                     LET text == updTr.changes[i].inserted
                     IN  /\ Len(text) >= 2
                         /\ SubSeq(text, Len(text) - 1, Len(text)) = <<"(", ")">>

\* C11 witness: with no tooltip showing, typed input ending with "()" sent
\* a request.
C11_Witness ==
    /\ updDone
    /\ sigState.tooltip = NoTooltip
    /\ updTr.userEvent = "input.type"
    /\ updTr.changes = << [deleted |-> 0, inserted |-> <<"(", ")">>] >>
    /\ updTr.effects = <<>>
    /\ triggered = 1

-----------------------------------------------------------------------------
(* Properties of the request/response exchange (checked under SpecLive) *)

InFlightIds == { req.id : req \in inflight }

\* A step that takes requests out of flight dispatches one effect: exactly
\* one request leaves, and the effect carries its id's captured offset and,
\* on failure, null.
DispatchStep ==
    LET gone == inflight \ inflight'
    IN  /\ (gone # {} \/ lastEffect' # lastEffect) =>
            /\ Cardinality(gone) = 1
            /\ lastEffect' # <<>>
            /\ \A req \in gone :
                 /\ lastEffect'[1].id = req.id
                 /\ lastEffect'[1].pos = req.pos
                 /\ lastEffect'[1].rejected => lastEffect'[1].result = Null
                 /\ sigState' = OverwriteBy([pos |-> req.pos, result |-> lastEffect'[1].result])
        \* a settled request never comes back, so it is answered once
        /\ \A req \in inflight' \ inflight : req.id > issued

\* C13: every request sent is eventually answered by the dispatch of
\* exactly one setSignatureHelpEffect, which carries the cursor offset
\* captured when the request was sent, with the server's result or, on
\* failure, null.
C13_AnsweredOnce ==
    /\ \A id \in 1..MaxRequests :
         (id \in InFlightIds) ~> (lastEffect # <<>> /\ lastEffect[1].id = id)
    /\ [][DispatchStep]_vars

\* C13 witness: a request was answered after the cursor had moved away from
\* the offset captured when it was sent.
C13_Witness ==
    /\ lastEffect # <<>>
    /\ lastEffect[1].pos # cursor
    /\ lastEffect[1].result # Null
    /\ sigState.tooltip # NoTooltip
    /\ sigState.tooltip[1].pos = lastEffect[1].pos
    /\ inflight = {}

-----------------------------------------------------------------------------
(* Properties of the state field over the editor's life (checked under Spec) *)

\* C12: the state field changes only in the transaction that carries a
\* setSignatureHelpEffect; a document edit, a selection change and the
\* sending of a request leave tooltip and result as they were.
C12_NoFlicker ==
    [][(updates' # updates \/ lastEffect' = lastEffect) => sigState' = sigState]_vars

\* C12 witness: a tooltip is still showing the last response after a later
\* edit that sent a new request, not yet answered.
C12_Witness ==
    /\ lastEffect # <<>>
    /\ sigState.tooltip # NoTooltip
    /\ sigState = OverwriteBy(lastEffect[1])
    /\ triggered = 1
    /\ \E req \in inflight : req.id > lastEffect[1].id /\ req.pos # sigState.tooltip[1].pos

\* C15 (as claimed): a showing tooltip's position is an offset of the
\* current document.
C15_TooltipPosValid ==
    sigState.tooltip # NoTooltip =>
        (0 <= sigState.tooltip[1].pos /\ sigState.tooltip[1].pos <= docLen)

\* C16: the state field has a tooltip exactly when it has a result.
C16_TooltipIffResult ==
    (sigState.tooltip = NoTooltip) <=> (sigState.result = Null)

\* C16 witness: a tooltip with a result was shown, cleared by a null
\* response, and both fields are null again.
C16_Witness ==
    /\ lastEffect # <<>>
    /\ ~lastEffect[1].rejected
    /\ lastEffect[1].result = Null
    /\ prevState.tooltip # NoTooltip
    /\ prevState.result # Null
    /\ sigState.tooltip = NoTooltip
    /\ sigState.result = Null

-----------------------------------------------------------------------------
(* Further properties of the router (checked under SpecRouter) *)

\* C14: every navigate call pushes exactly one history entry after the
\* current one, holding the new state, and sets the router state to it,
\* also when the new state equals the current one; no other step adds or
\* changes a history entry.
C14_NavigateRecordsHistory ==
    [][IF lastNav'.navs # lastNav.navs
       THEN /\ histIdx' = histIdx + 1
            /\ Len(history') = histIdx + 1
            /\ SubSeq(history', 1, histIdx) = SubSeq(history, 1, histIdx)
            /\ history'[histIdx'].state = Some(routerState')
       ELSE history' = history]_vars

\* C14 witness: a navigate call whose new state equals the state of the
\* entry before it has pushed its own entry.
C14_Witness ==
    /\ lastNav.op \in {"navigate", "param"}
    /\ histIdx >= 3
    /\ histIdx = Len(history)
    /\ history[histIdx].state = history[histIdx - 1].state
    /\ history[histIdx].state = Some(routerState)
    /\ routerState.reference # Undefined

-----------------------------------------------------------------------------
(* Further properties of the settings predicate (checked under SpecSettings) *)

\* C17 (as claimed): the predicate returns a boolean for every value, it
\* never throws.
C17_Total == settingsResult \in {"pending", "true", "false"}

-----------------------------------------------------------------------------
(* Further properties of one transaction (checked under SpecUpdate) *)

\* Indexes of the transaction's setSignatureHelpEffect effects.
SigEffectIndexes ==
    { i \in 1..Len(updTr.effects) : updTr.effects[i].is = "setSignatureHelpEffect" }

\* C19: of several setSignatureHelpEffect effects in one transaction the
\* state field applies the first only; without such an effect the state is
\* the one it was.
C19_FirstEffectOnly ==
    updDone =>
        IF SigEffectIndexes = {} THEN sigState = prevState
        ELSE LET first == CHOOSE i \in SigEffectIndexes : \A j \in SigEffectIndexes : i <= j
             IN  sigState = reduceSignatureHelpState(prevState, updTr.effects[first].value)

\* C19 witness: a transaction carried a result and then a null result; the
\* tooltip of the first is showing.
C19_Witness ==
    /\ updDone
    /\ Len(updTr.effects) = 2
    /\ SigEffectIndexes = {1, 2}
    /\ updTr.effects[1].value.result # Null
    /\ updTr.effects[2].value.result = Null
    /\ sigState.result = updTr.effects[1].value.result
    /\ sigState.tooltip # NoTooltip

-----------------------------------------------------------------------------
(* Properties of tooltip rendering (checked under SpecFormat) *)

\* Whether the signature formatSignatureHelp selects exists: signatures[0]
\* for a null activeSignature, signatures[activeSignature] otherwise.
SelectedIndex == IF fmtHelp.activeSignature.kind = "null" THEN 0 ELSE fmtHelp.activeSignature.n
HasSelected ==
    /\ fmtHelp.activeSignature.kind \in {"null", "number"}
    /\ SelectedIndex < Len(fmtHelp.signatures)

\* C18: formatSignatureHelp renders signatures[0] for a null activeSignature
\* and signatures[activeSignature] otherwise; an offset-pair label [from, to]
\* of the active parameter highlights label[from..to), no active parameter
\* highlights the empty span at the end of the label, a string label throws
\* "Not supported"; creation succeeds only without a string label and with
\* a selected signature that exists.
C18_FormatSignatureHelp ==
    fmtOutcome # Pending =>
        IF ~HasSelected THEN fmtOutcome.kind = "throws"
        ELSE LET sig == fmtHelp.signatures[SelectedIndex + 1]
                 hasActive == /\ sig.activeParameter # Undefined
                              /\ sig.parameters # Undefined
                              /\ sig.activeParameter[1] < Len(sig.parameters[1])
                 plabel == sig.parameters[1][sig.activeParameter[1] + 1].label
             IN  IF ~hasActive
                 THEN /\ fmtOutcome.kind = "node"
                      /\ fmtOutcome.before = sig.label
                      /\ fmtOutcome.parameter = <<>>
                      /\ fmtOutcome.after = <<>>
                 ELSE IF plabel.kind = "string"
                 THEN fmtOutcome.kind = "throws" /\ fmtOutcome.error = "Not supported"
                 ELSE /\ fmtOutcome.kind = "node"
                      /\ fmtOutcome.before = SubSeq(sig.label, 1, plabel.from)
                      /\ fmtOutcome.parameter = SubSeq(sig.label, plabel.from + 1, plabel.to)
                      /\ fmtOutcome.after = SubSeq(sig.label, plabel.to + 1, Len(sig.label))

\* C18 witness: the second of two different signatures is the active one
\* and its active parameter "b" is highlighted.
C18_Witness ==
    /\ fmtOutcome.kind = "node"
    /\ fmtHelp.activeSignature = [kind |-> "number", n |-> 1]
    /\ Len(fmtHelp.signatures) = 2
    /\ fmtHelp.signatures[1].label # fmtHelp.signatures[2].label
    /\ fmtHelp.signatures[1].activeParameter = Undefined
    /\ fmtOutcome.parameter = <<"b">>
    /\ fmtOutcome.after = <<")">>

====
